---- MODULE Spec2Model ----
(***************************************************************************)
(* The course data-access module of the course-catalog site, in its two    *)
(* variants:                                                               *)
(*   - the local-store variant (src/unnamed/part_001): the catalog lives   *)
(*     in courseList and is written through to localStorage;               *)
(*   - the remote-backed variant (src/src/js/Modules/courseSystem.js): the *)
(*     catalog is fetched from and written to an HTTP backend, and the     *)
(*     async operations suspend while a request is in flight.              *)
(* Arrays are sequences (index 1 is JavaScript's index 0), objects are     *)
(* records, and a missing key is a key outside the record's DOMAIN.        *)
(***************************************************************************)
EXTENDS Integers, Sequences, FiniteSets, TLC

VARIABLES
    variant,        \* "local" | "remote": which of the two modules is loaded
    courseList,     \* the module-level catalog
    storage,        \* localStorage's entry under STORAGE_KEY_COURSES
    users,          \* the User Directory (listUsers / updateUser)
    progress,       \* the Progress Tracker's records, <<userId, courseId>>
    calls,          \* the async calls in flight
    last,           \* history: the operation that completed last, its result
    lastPersisted,  \* history: the catalog as of the last successful persist
    idHistory,      \* history: every id a course of the catalog has ever had
    writeFailures,  \* history: how many storage writes have failed
    loadPerformed,  \* history: a load of listCourses has completed
    messages,       \* notification widget: the messages and their unread flags
    countEl,        \* notification widget: the badge (style.display, innerText)
    popup,          \* notification widget: the class list of the popup
    ul              \* notification widget: the list items (dot, class list)

vars == <<variant, courseList, storage, users, progress, calls, last,
          lastPersisted, idHistory, writeFailures, loadPerformed,
          messages, countEl, popup, ul>>

\* The state of the notification widget, which the course system never touches
widget == <<messages, countEl, popup, ul>>

---------------------------------------------------------------------------
(* Bounds of the model *)

MaxCourses == 2
MaxId == 2
MaxVisits == 1
MaxWriteFailures == 1
MaxCalls == 2
MaxReadCourses == 4

---------------------------------------------------------------------------
(* JavaScript values *)

\* The value of `categories`: an array, or something that is not one (a
\* string, null). v holds the array's elements, or the string's characters.
Arr(s) == [arr |-> TRUE, v |-> s]
NotArr(s) == [arr |-> FALSE, v |-> s]

\* Array.isArray(x)
IsArray(x) == x.arr

\* Truthiness of such a value: every array is truthy, the empty one too; of
\* the others only the non-empty string is.
Truthy(x) == x.arr \/ x.v # <<>>

\* x || [] for such a value, read as an array
OrEmpty(x) == IF Truthy(x) /\ IsArray(x) THEN x.v ELSE <<>>

Has(o, k) == k \in DOMAIN o

\* {...a, ...b}
Spread(a, b) ==
    [k \in DOMAIN a \cup DOMAIN b |-> IF k \in DOMAIN b THEN b[k] ELSE a[k]]

Range(s) == {s[i] : i \in DOMAIN s}

Max(S) == CHOOSE x \in S : \A y \in S : y <= x

\* [...new Set(s)]: the elements of s, each kept where it occurs first
RECURSIVE Dedup(_)
Dedup(s) ==
    IF s = <<>> THEN <<>>
    ELSE LET front == Dedup(SubSeq(s, 1, Len(s) - 1))
             x == s[Len(s)]
         IN IF x \in Range(front) THEN front ELSE Append(front, x)

\* array.splice(idx, 1) with idx a 1-based position (>= 1): the array left,
\* which is the array itself when idx is past its end
Splice(s, idx) ==
    IF idx > Len(s) THEN s
    ELSE SubSeq(s, 1, idx - 1) \o SubSeq(s, idx + 1, Len(s))

\* what array.splice(idx, 1) returns: the elements it removed
Spliced(s, idx) == IF idx > Len(s) THEN <<>> ELSE <<s[idx]>>

\* String(x) of a course reference: a number n and the string "n" both give
\* the numeral of n, which n stands for here
ToStr(x) == x.n
NumRef(n) == [t |-> "number", n |-> n]
StrRef(n) == [t |-> "string", n |-> n]

---------------------------------------------------------------------------
(* The data *)

UserIds == {"u1"}
Times == {"2026-01-01T00:00:00.000Z"}

\* The built-in seed of the local-store variant
SeedCourses == <<
    [id |-> 1, title |-> "Multimedia Basics", description |-> "Intro to multimedia",
     instructor |-> "Jana", students |-> <<>>,
     categories |-> Arr(<<"multimedia", "basics">>), visits |-> 0,
     price |-> 200, duration |-> "3 Weeks"],
    [id |-> 2, title |-> "Graphic Design", description |-> "Basics of GD",
     instructor |-> "Sama", students |-> <<>>,
     categories |-> Arr(<<"graphic", "design">>), visits |-> 0,
     price |-> 250, duration |-> "4 Weeks"] >>

\* The absent argument (null / undefined)
Null == [null |-> TRUE]
IsNull(o) == Has(o, "null")

\* What callers hand to createCourse: nothing, a partial without a title or
\* with an empty one, a partial with a title, and one that carries an id
CourseArgs == {
    Null,
    [price |-> 5],
    [title |-> ""],
    [title |-> "A"],
    [title |-> "A", id |-> 2] }

\* What callers hand to editCourse as the patch: objects, and nothing
Patches == {
    Null,
    [categories |-> Arr(<<"y", "x">>)],
    [categories |-> NotArr(<<"y">>)],
    [categories |-> NotArr(<<>>)],
    [id |-> 1],
    [visits |-> 0],
    [students |-> << <<"u1", "2026-01-01T00:00:00.000Z">>,
                     <<"u1", "2026-01-01T00:00:00.000Z">> >>] }

\* The ids callers ask for
IdArgs == 1 .. MaxId

---------------------------------------------------------------------------
(* localStorage and JSON (local-store variant) *)

StorageAbsent == [kind |-> "absent", text |-> <<>>]
StorageCorrupt == [kind |-> "corrupt", text |-> <<>>]
StorageNull == [kind |-> "null", text |-> <<>>]

CourseKeys == <<"id", "title", "description", "instructor", "students", "categories",
                "visits", "price", "duration">>

\* JSON.stringify of one course: its own keys, each with its value
StringifyCourse(c) ==
    LET keys == SelectSeq(CourseKeys, LAMBDA k : k \in DOMAIN c)
    IN [i \in DOMAIN keys |-> <<keys[i], c[keys[i]]>>]

\* JSON.stringify(courseList)
Stringify(list) == [i \in DOMAIN list |-> StringifyCourse(list[i])]

\* JSON.parse of one serialized course
ParseCourse(t) ==
    [k \in {t[j][1] : j \in DOMAIN t} |->
        LET j == CHOOSE j \in DOMAIN t : t[j][1] = k IN t[j][2]]

\* JSON.parse of a serialized catalog
Parse(text) == [i \in DOMAIN text |-> ParseCourse(text[i])]

\* JSON.parse(localStorage.getItem(STORAGE_KEY_COURSES)): getItem gives null
\* for an absent key, and JSON.parse(null) is null
JSONParse(st) ==
    IF st.kind = "json" THEN Arr(Parse(st.text)) ELSE NotArr(<<>>)

\* try { return JSON.parse(...) || []; } catch (e) { return []; }
loadCourses(st) ==
    IF st.kind = "corrupt" THEN Arr(<<>>)
    ELSE LET parsed == JSONParse(st)
         IN IF Truthy(parsed) THEN parsed ELSE Arr(<<>>)

\* export let courseList = loadCourses() || [ ...the seed... ]
InitialCatalog(st) ==
    LET loaded == loadCourses(st)
    IN IF Truthy(loaded) THEN loaded.v ELSE SeedCourses

---------------------------------------------------------------------------
(* The collaborators: User Directory and Progress Tracker *)

InitialUsers == <<
    [id |-> "u1", role |-> "student", enrolledCourses |-> <<NumRef(1), NumRef(9)>>],
    [id |-> "u2", role |-> "student", enrolledCourses |-> <<StrRef(1)>>],
    [id |-> "u3", role |-> "instructor", enrolledCourses |-> <<NumRef(1), NumRef(9)>>] >>

InitialProgress == {<<"u1", 1>>, <<"u1", 9>>, <<"u2", 1>>}

\* cleanupCourseData(courseId): the records of the course are removed
cleanupCourseData(recs, courseId) == {r \in recs : r[2] # courseId}

\* updateUser(user, patch) for the user at position i of the directory
updateUser(dir, i, patch) == [dir EXCEPT ![i] = Spread(dir[i], patch)]

---------------------------------------------------------------------------
(* History *)

Outcome(op, id, ok, val) ==
    [op |-> op, id |-> id, ok |-> ok, val |-> val, removed |-> <<>>,
     calls |-> <<>>, saved |-> FALSE, existed |-> FALSE, alone |-> TRUE,
     wasEmpty |-> FALSE, loaded |-> FALSE, refused |-> FALSE, prevCreate |-> 0,
     threw |-> FALSE, afterReset |-> FALSE]

Ids(list) == {list[i].id : i \in DOMAIN list}

---------------------------------------------------------------------------
(* The notification widget: its elements and updateCount *)

\* const messages = [...]: five messages, all unread
InitialMessages == <<
    [text |-> "New comment on your post. Lorem ipsum dolor sit amet.", unread |-> TRUE],
    [text |-> "Your subscription is expiring soon.", unread |-> TRUE],
    [text |-> "New like on your photo!", unread |-> TRUE],
    [text |-> "You have a new friend request.", unread |-> TRUE],
    [text |-> "Update available. Please update to the latest version.", unread |-> TRUE] >>

\* The text a number becomes when it is assigned to innerText
Digits == <<"0", "1", "2", "3", "4", "5", "6", "7", "8", "9">>
RECURSIVE String(_)
String(n) == IF n < 10 THEN Digits[n + 1]
             ELSE String(n \div 10) \o Digits[(n % 10) + 1]

\* A badge that is never hidden: the text is set whatever the number is
updateCountAlwaysShown(msgs, el) ==
    LET unread == Cardinality({i \in DOMAIN msgs : msgs[i].unread})
    IN  [el EXCEPT !.display = "flex", !.innerText = String(unread)]

\* updateCount(): the badge after it, for the messages msgs and the badge el
updateCount(msgs, el) ==
    LET unread == Cardinality({i \in DOMAIN msgs : msgs[i].unread})
    IN  IF unread = 0
        THEN [el EXCEPT !.display = "none"]
        ELSE [el EXCEPT !.display = "flex", !.innerText = String(unread)]

\* messages.slice(0,5).forEach(...): one li per message, with its index, and
\* a dot when the message is unread
ListItems(msgs) ==
    [i \in DOMAIN msgs |-> [index |-> i - 1, dot |-> msgs[i].unread, classList |-> {}]]

\* The widget once the script has run: the badge element is created empty
\* and updateCount() is called once, the popup has its class alone
InitWidget ==
    /\ messages = InitialMessages
    /\ countEl = updateCount(InitialMessages, [display |-> "", innerText |-> ""])
    /\ popup = {"notification-popup"}
    /\ ul = ListItems(InitialMessages)

---------------------------------------------------------------------------
(* Helpers shared by the two variants *)

\* A lookup whose -1 is taken for a position: splice(-1, 1) and [-1] count
\* from the end, so an unknown id lands on the last course
findCourseIndexOrLast(list, id) ==
    IF \E i \in DOMAIN list : list[i].id = id
    THEN CHOOSE i \in DOMAIN list :
            list[i].id = id /\ \A j \in DOMAIN list : list[j].id = id => i <= j
    ELSE Len(list)

\* courseList.findIndex(c => c.id === id): the 1-based position, 0 for -1
findCourseIndex(list, id) ==
    IF \E i \in DOMAIN list : list[i].id = id
    THEN CHOOSE i \in DOMAIN list :
            list[i].id = id /\ \A j \in DOMAIN list : list[j].id = id => i <= j
    ELSE 0

\* A generator that counts the courses instead of taking the greatest id
generateUniqueCourseIdByCount(list) == Len(list) + 1

generateUniqueCourseId(list) ==
    IF Len(list) = 0 THEN 1 ELSE Max(Ids(list)) + 1

\* A check of the argument that forgets the title
InvalidCourseAbsentOnly(course) == IsNull(course)

\* !course || !course.title
InvalidCourse(course) ==
    IsNull(course) \/ ~Has(course, "title") \/ course.title = ""

\* The record createCourse builds: the caller's fields, then id and defaults
NewCourse(course, newId) ==
    Spread(course,
        [id |-> newId,
         students |-> IF Has(course, "students") THEN course.students ELSE <<>>,
         categories |-> IF Has(course, "categories") /\ Truthy(course.categories)
                        THEN course.categories ELSE Arr(<<>>),
         visits |-> IF Has(course, "visits") THEN course.visits ELSE 0,
         price |-> IF Has(course, "price") THEN course.price ELSE 0,
         duration |-> IF Has(course, "duration") /\ course.duration # ""
                      THEN course.duration ELSE "N/A"])

\* The record editCourse stores at position idx
EditedCourse(list, idx, data) ==
    LET merged ==
            IF Has(data, "categories") /\ Truthy(data.categories)
            THEN LET given == IF IsArray(data.categories)
                              THEN data.categories.v ELSE <<>>
                     oldCategories == OrEmpty(list[idx].categories)
                 IN Spread(data, [categories |-> Arr(Dedup(oldCategories \o given))])
            ELSE data
    IN Spread(list[idx], merged)

---------------------------------------------------------------------------
(* The local-store variant: src/unnamed/part_001 *)

\* A save that serializes the catalog as it was before the operation changed it
saveCoursesStale(list, out) ==
    \/ /\ storage' = [kind |-> "json", text |-> Stringify(courseList)]
       /\ lastPersisted' = list
       /\ last' = [out EXCEPT !.saved = TRUE]
       /\ UNCHANGED writeFailures
    \/ /\ writeFailures < MaxWriteFailures
       /\ writeFailures' = writeFailures + 1
       /\ last' = out
       /\ UNCHANGED <<storage, lastPersisted>>

\* saveCourses() after the catalog became `list`: setItem may throw (quota),
\* which is swallowed. `out` is the outcome the operation reports.
saveCourses(list, out) ==
    \/ /\ storage' = [kind |-> "json", text |-> Stringify(list)]
       /\ lastPersisted' = list
       /\ last' = [out EXCEPT !.saved = TRUE]
       /\ UNCHANGED writeFailures
    \/ /\ writeFailures < MaxWriteFailures
       /\ writeFailures' = writeFailures + 1
       /\ last' = out
       /\ UNCHANGED <<storage, lastPersisted>>

\* An operation that returns before it touches anything
Returns(out) ==
    /\ last' = out
    /\ UNCHANGED <<variant, courseList, storage, users, progress, calls,
                   lastPersisted, idHistory, writeFailures, loadPerformed, widget>>

\* What the local-store operations never touch
LocalFrame == UNCHANGED <<variant, calls, loadPerformed, widget>>

createCourse(course) ==
    /\ variant = "local"
    /\ IF InvalidCourse(course)
       THEN Returns(Outcome("createCourse", 0, FALSE, 0))
       ELSE LET newId == generateUniqueCourseId(courseList)
                newCourse == NewCourse(course, newId)
                list == Append(courseList, newCourse)
            IN /\ Len(courseList) < MaxCourses
               /\ newId <= MaxId
               /\ courseList' = list
               /\ idHistory' = idHistory \cup Ids(list)
               /\ saveCourses(list,
                     [Outcome("createCourse", 0, TRUE, newCourse.id) EXCEPT
                         !.prevCreate = IF last.op = "createCourse" /\ last.ok
                                        THEN last.val ELSE 0])
               /\ UNCHANGED <<users, progress>>
               /\ LocalFrame

editCourse(id, data) ==
    /\ variant = "local"
    /\ LET idx == findCourseIndex(courseList, id)
       IN IF idx = 0
          THEN Returns(Outcome("editCourse", 0, FALSE, 0))
          ELSE IF IsNull(data)
          THEN \* data.categories of null: a TypeError, thrown to the caller
               Returns([Outcome("editCourse", 0, FALSE, 0) EXCEPT !.threw = TRUE])
          ELSE LET list == [courseList EXCEPT ![idx] = EditedCourse(courseList, idx, data)]
               IN /\ courseList' = list
                  /\ idHistory' = idHistory \cup Ids(list)
                  /\ saveCourses(list, Outcome("editCourse", id, TRUE, list[idx].id))
                  /\ UNCHANGED <<users, progress>>
                  /\ LocalFrame

deleteCourse(id) ==
    /\ variant = "local"
    /\ LET idx == findCourseIndex(courseList, id)
       IN IF idx = 0
          THEN Returns(Outcome("deleteCourse", 0, FALSE, 0))
          ELSE LET list == Splice(courseList, idx)
                   out == [Outcome("deleteCourse", id, TRUE, 0) EXCEPT
                              !.existed = TRUE,
                              !.removed = [i \in DOMAIN Spliced(courseList, idx) |->
                                              Spliced(courseList, idx)[i].id]]
               IN /\ courseList' = list
                  /\ saveCourses(list, out)
                  /\ UNCHANGED <<users, progress, idHistory>>
                  /\ LocalFrame

incrementVisits(courseId) ==
    /\ variant = "local"
    /\ LET idx == findCourseIndex(courseList, courseId)
       IN IF idx = 0
          THEN Returns(Outcome("incrementVisits", 0, FALSE, 0))
          ELSE LET visits == courseList[idx].visits + 1
                   list == [courseList EXCEPT ![idx].visits = visits]
               IN /\ visits <= MaxVisits
                  /\ courseList' = list
                  /\ saveCourses(list, Outcome("incrementVisits", courseId, TRUE, visits))
                  /\ UNCHANGED <<users, progress, idHistory>>
                  /\ LocalFrame

\* Whether some entry of the student list is for userId
IsStudent(students, userId) == \E i \in DOMAIN students : students[i][1] = userId

enrollUser(userId, courseId, now) ==
    /\ variant = "local"
    /\ LET idx == findCourseIndex(courseList, courseId)
       IN IF idx = 0 \/ IsStudent(courseList[idx].students, userId)
          THEN Returns(Outcome("enrollUser", 0, FALSE, 0))
          ELSE LET list == [courseList EXCEPT
                               ![idx].students = Append(@, <<userId, now>>)]
               IN /\ courseList' = list
                  /\ saveCourses(list, Outcome("enrollUser", courseId, TRUE, 0))
                  /\ UNCHANGED <<users, progress, idHistory>>
                  /\ LocalFrame

resetAllCourses ==
    /\ variant = "local"
    /\ courseList' = <<>>
    /\ storage' = StorageAbsent
    /\ lastPersisted' = <<>>
    /\ last' = [Outcome("resetAllCourses", 0, TRUE, 0) EXCEPT !.saved = TRUE]
    /\ UNCHANGED <<users, progress, idHistory, writeFailures>>
    /\ LocalFrame

\* The cascade after the course is deleted: the Progress Tracker's cleanup,
\* then updateUser for every student of listUsers(), in its order. The result
\* is the directory, the progress records and the calls made, in order.
RECURSIVE UpdateStudents(_, _, _)
UpdateStudents(dir, i, courseId) ==
    IF i > Len(dir) THEN [users |-> dir, calls |-> <<>>]
    ELSE IF dir[i].role = "student"
         THEN LET remainingCourses ==
                      SelectSeq(dir[i].enrolledCourses,
                                LAMBDA course : ToStr(course) # courseId)
                  rest == UpdateStudents(
                              updateUser(dir, i, [enrolledCourses |-> remainingCourses]),
                              i + 1, courseId)
              IN [users |-> rest.users, calls |-> <<"updateUser">> \o rest.calls]
         ELSE UpdateStudents(dir, i + 1, courseId)

\* A cascade that updates the users before it cleans the progress records
CascadeUsersFirst(dir, recs, courseId) ==
    LET updated == UpdateStudents(dir, 1, courseId)
    IN [progress |-> cleanupCourseData(recs, courseId),
        users |-> updated.users,
        calls |-> updated.calls \o <<"cleanupCourseData">>]

Cascade(dir, recs, courseId) ==
    LET updated == UpdateStudents(dir, 1, courseId)
    IN [progress |-> cleanupCourseData(recs, courseId),
        users |-> updated.users,
        calls |-> <<"cleanupCourseData">> \o updated.calls]

courseDeletion(courseId) ==
    /\ variant = "local"
    /\ LET idx == findCourseIndex(courseList, courseId)
       IN IF idx = 0
          THEN Returns(Outcome("courseDeletion", 0, FALSE, 0))
          ELSE LET list == Splice(courseList, idx)
                   after == Cascade(users, progress, courseId)
                   out == [Outcome("courseDeletion", courseId, TRUE, 0) EXCEPT
                              !.existed = TRUE,
                              !.removed = <<courseList[idx].id>>,
                              !.calls = <<"deleteCourse">> \o after.calls]
               IN /\ courseList' = list
                  /\ saveCourses(list, out)
                  /\ users' = after.users
                  /\ progress' = after.progress
                  /\ UNCHANGED idHistory
                  /\ LocalFrame

---------------------------------------------------------------------------
(* The page load of the local-store variant *)

InitialStorages == {
    StorageAbsent, StorageCorrupt, StorageNull,
    [kind |-> "json", text |-> Stringify(<<>>)],
    [kind |-> "json", text |-> Stringify(<<NewCourse([title |-> "A"], 1)>>)] }

\* The record of a call, before anything is known of it
NoCall ==
    [op |-> "none", pc |-> "idle", course |-> Null, id |-> 0, idx |-> 0,
     alone |-> TRUE, wasEmpty |-> FALSE, loaded |-> FALSE, prevCreate |-> 0,
     afterReset |-> FALSE]

InitLocal ==
    /\ variant = "local"
    /\ storage \in InitialStorages
    /\ courseList = InitialCatalog(storage)
    /\ users = InitialUsers
    /\ progress = InitialProgress
    /\ calls = <<>>
    /\ last = [Outcome("init", 0, TRUE, 0) EXCEPT !.saved = TRUE]
    /\ lastPersisted = courseList
    /\ idHistory = Ids(courseList)
    /\ writeFailures = 0
    /\ loadPerformed = FALSE
    /\ InitWidget

NextLocal ==
    \/ \E course \in CourseArgs : createCourse(course)
    \/ \E id \in IdArgs, data \in Patches : editCourse(id, data)
    \/ \E id \in IdArgs : deleteCourse(id)
    \/ \E id \in IdArgs : incrementVisits(id)
    \/ \E u \in UserIds, id \in IdArgs, now \in Times : enrollUser(u, id, now)
    \/ resetAllCourses
    \/ \E id \in IdArgs : courseDeletion(id)

SpecLocal == InitLocal /\ [][NextLocal]_vars

---------------------------------------------------------------------------
(* The remote-backed variant: src/src/js/Modules/courseSystem.js            *)
(* An async operation runs up to its await in one step and resumes with the *)
(* backend's answer in another. Between the two, other callers' operations  *)
(* may run. The backend is any backend: a request succeeds or fails, and a  *)
(* successful GET /api/courses carries one of ServerCatalogs.               *)

\* What a successful GET /api/courses may carry
ServerCatalogs == {<<>>, <<NewCourse([title |-> "A"], 1)>>}

\* The answers to GET /api/courses: response.ok and the body
FetchAnswers ==
    {[ok |-> FALSE, data |-> <<>>]} \cup {[ok |-> TRUE, data |-> d] : d \in ServerCatalogs}

\* The calls in flight are kept in one order whatever the order they were
\* made in: callers have no identity, so the order says nothing
OpRank(c) ==
    CASE c.op = "listCourses" -> 1
      [] c.op = "createCourse" /\ c.pc = "fetch" -> 2
      [] c.op = "createCourse" -> 3
      [] c.op = "deleteCourse" -> 4
      [] OTHER -> 5

CallKey(c) == OpRank(c) * 100 + c.id * 10 + c.idx

Before(seq, c) == Cardinality({i \in DOMAIN seq : CallKey(seq[i]) <= CallKey(c)})

Insert(seq, c) ==
    SubSeq(seq, 1, Before(seq, c)) \o <<c>> \o SubSeq(seq, Before(seq, c) + 1, Len(seq))

Remove(seq, p) == SubSeq(seq, 1, p - 1) \o SubSeq(seq, p + 1, Len(seq))

\* A call that another operation has run beside: what is recorded only of a
\* call that ran alone is dropped
Beside(c) == [c EXCEPT !.alone = FALSE, !.wasEmpty = FALSE, !.loaded = FALSE,
                       !.prevCreate = 0, !.afterReset = FALSE]

\* The calls in flight after one more operation has been called
Interfered == [q \in DOMAIN calls |-> Beside(calls[q])]

\* The record of an operation called now
Started(op) ==
    IF calls = <<>>
    THEN [NoCall EXCEPT
             !.op = op,
             !.wasEmpty = (Len(courseList) = 0),
             !.afterReset = (last.op = "resetAllCourses"),
             !.prevCreate = IF last.op = "createCourse" /\ last.ok THEN last.val ELSE 0]
    ELSE Beside([NoCall EXCEPT !.op = op])

\* The outcome of the call c
Finished(c, ok, val) ==
    [Outcome(c.op, c.id, ok, val) EXCEPT
        !.alone = c.alone, !.wasEmpty = c.wasEmpty, !.loaded = c.loaded,
        !.prevCreate = c.prevCreate, !.afterReset = c.afterReset]

Await == Outcome("await", 0, TRUE, 0)

\* What the remote-backed operations never touch
RemoteFrame ==
    UNCHANGED <<variant, storage, lastPersisted, writeFailures, idHistory, widget>>

\* fetchCourses() resumed with the answer: the catalog afterwards
fetchCourses(answer) == IF answer.ok THEN answer.data ELSE courseList

\* createCourse(course) up to its first await
createCourseRemote(course) ==
    /\ variant = "remote"
    /\ IF InvalidCourse(course)
       THEN /\ last' = Outcome("createCourse", 0, FALSE, 0)
            /\ calls' = Interfered
       ELSE /\ Len(calls) < MaxCalls
            /\ last' = Await
            /\ IF Len(courseList) = 0
               THEN calls' = Insert(Interfered,
                        [Started("createCourse") EXCEPT
                            !.pc = "fetch", !.course = course])
               ELSE LET newId == generateUniqueCourseId(courseList)
                    IN /\ newId <= MaxId
                       /\ calls' = Insert(Interfered,
                             [Started("createCourse") EXCEPT
                                 !.pc = "post", !.id = newId,
                                 !.course = NewCourse(course, newId)])
    /\ UNCHANGED <<courseList, users, progress, loadPerformed>>
    /\ RemoteFrame

\* createCourse resumed after `await fetchCourses()`, up to the POST
createCourseFetched(p, answer) ==
    /\ variant = "remote"
    /\ calls[p].op = "createCourse" /\ calls[p].pc = "fetch"
    /\ LET list == fetchCourses(answer)
           newId == generateUniqueCourseId(list)
       IN /\ newId <= MaxId
          /\ courseList' = list
          /\ calls' = Insert(Remove(calls, p),
                [calls[p] EXCEPT
                    !.pc = "post", !.id = newId,
                    !.loaded = calls[p].alone /\ answer.ok,
                    !.course = NewCourse(calls[p].course, newId)])
    /\ last' = Await
    /\ UNCHANGED <<users, progress, loadPerformed>>
    /\ RemoteFrame

\* A createCourse that appends the course whatever the backend answers
createCourseOptimistic(p, ok) ==
    /\ variant = "remote"
    /\ calls[p].op = "createCourse" /\ calls[p].pc = "post"
    /\ Len(courseList) < MaxCourses
    /\ courseList' = Append(courseList, calls[p].course)
    /\ last' = IF ok
                THEN [Finished(calls[p], TRUE, calls[p].course.id) EXCEPT !.id = 0]
                ELSE [Finished(calls[p], FALSE, 0) EXCEPT !.id = 0, !.refused = TRUE]
    /\ calls' = Remove(calls, p)
    /\ UNCHANGED <<users, progress, loadPerformed>>
    /\ RemoteFrame

\* createCourse resumed with the answer to the POST
createCourseResponded(p, ok) ==
    /\ variant = "remote"
    /\ calls[p].op = "createCourse" /\ calls[p].pc = "post"
    /\ IF ok
       THEN /\ Len(courseList) < MaxCourses
            /\ courseList' = Append(courseList, calls[p].course)
            /\ last' = [Finished(calls[p], TRUE, calls[p].course.id) EXCEPT !.id = 0]
       ELSE /\ last' = [Finished(calls[p], FALSE, 0) EXCEPT !.id = 0, !.refused = TRUE]
            /\ UNCHANGED courseList
    /\ calls' = Remove(calls, p)
    /\ UNCHANGED <<users, progress, loadPerformed>>
    /\ RemoteFrame

\* listCourses() up to its await, or to its return when the catalog is not empty
listCoursesRemote ==
    /\ variant = "remote"
    /\ IF Len(courseList) = 0
       THEN /\ Len(calls) < MaxCalls
            /\ calls' = Insert(Interfered, [Started("listCourses") EXCEPT !.pc = "fetch"])
            /\ last' = Await
       ELSE /\ calls' = Interfered
            /\ last' = Outcome("listCourses", 0, TRUE, Len(courseList))
    /\ UNCHANGED <<courseList, users, progress, loadPerformed>>
    /\ RemoteFrame

\* listCourses resumed after `await fetchCourses()`
listCoursesFetched(p, answer) ==
    /\ variant = "remote"
    /\ calls[p].op = "listCourses" /\ calls[p].pc = "fetch"
    /\ courseList' = fetchCourses(answer)
    /\ IF answer.ok
       THEN /\ last' = [Finished(calls[p], TRUE, Len(answer.data)) EXCEPT !.loaded = TRUE]
            /\ loadPerformed' = TRUE
       ELSE /\ last' = [Finished(calls[p], FALSE, 0) EXCEPT !.refused = TRUE]
            /\ UNCHANGED loadPerformed
    /\ calls' = Remove(calls, p)
    /\ UNCHANGED <<users, progress>>
    /\ RemoteFrame

\* deleteCourse(id) up to its await, or to its return when the id is unknown
deleteCourseRemote(id) ==
    /\ variant = "remote"
    /\ LET idx == findCourseIndex(courseList, id)
       IN IF idx = 0
          THEN /\ last' = Outcome("deleteCourse", 0, FALSE, 0)
               /\ calls' = Interfered
          ELSE /\ Len(calls) < MaxCalls
               /\ last' = Await
               /\ calls' = Insert(Interfered,
                     [Started("deleteCourse") EXCEPT
                         !.pc = "delete", !.id = id, !.idx = idx])
    /\ UNCHANGED <<courseList, users, progress, loadPerformed>>
    /\ RemoteFrame

\* The ids of the courses courseList.splice(idx, 1) removes
RemovedIds(list, idx) ==
    [i \in DOMAIN Spliced(list, idx) |-> Spliced(list, idx)[i].id]

\* deleteCourse resumed with the answer to the DELETE
deleteCourseResponded(p, ok) ==
    /\ variant = "remote"
    /\ calls[p].op = "deleteCourse" /\ calls[p].pc = "delete"
    /\ IF ok
       THEN /\ courseList' = Splice(courseList, calls[p].idx)
            /\ last' = [Finished(calls[p], TRUE, 0) EXCEPT
                           !.existed = TRUE,
                           !.removed = RemovedIds(courseList, calls[p].idx)]
       ELSE /\ last' = [Finished(calls[p], FALSE, 0) EXCEPT
                           !.existed = TRUE, !.refused = TRUE]
            /\ UNCHANGED courseList
    /\ calls' = Remove(calls, p)
    /\ UNCHANGED <<users, progress, loadPerformed>>
    /\ RemoteFrame

\* courseDeletion(courseId) up to the await in the deleteCourse it calls, or
\* to its return when deleteCourse finds no such id
courseDeletionRemote(courseId) ==
    /\ variant = "remote"
    /\ LET idx == findCourseIndex(courseList, courseId)
       IN IF idx = 0
          THEN /\ last' = Outcome("courseDeletion", 0, FALSE, 0)
               /\ calls' = Interfered
          ELSE /\ Len(calls) < MaxCalls
               /\ last' = Await
               /\ calls' = Insert(Interfered,
                     [Started("courseDeletion") EXCEPT
                         !.pc = "delete", !.id = courseId, !.idx = idx])
    /\ UNCHANGED <<courseList, users, progress, loadPerformed>>
    /\ RemoteFrame

\* courseDeletion resumed with what deleteCourse returns
courseDeletionResponded(p, ok) ==
    /\ variant = "remote"
    /\ calls[p].op = "courseDeletion" /\ calls[p].pc = "delete"
    /\ IF ok
       THEN LET after == Cascade(users, progress, calls[p].id)
            IN /\ courseList' = Splice(courseList, calls[p].idx)
               /\ users' = after.users
               /\ progress' = after.progress
               /\ last' = [Finished(calls[p], TRUE, 0) EXCEPT
                              !.existed = TRUE,
                              !.removed = RemovedIds(courseList, calls[p].idx),
                              !.calls = <<"deleteCourse">> \o after.calls]
       ELSE /\ last' = [Finished(calls[p], FALSE, 0) EXCEPT
                           !.existed = TRUE, !.refused = TRUE]
            /\ UNCHANGED <<courseList, users, progress>>
    /\ calls' = Remove(calls, p)
    /\ UNCHANGED loadPerformed
    /\ RemoteFrame

\* The synchronous operations change the cached catalog only
editCourseRemote(id, data) ==
    /\ variant = "remote"
    /\ LET idx == findCourseIndex(courseList, id)
       IN IF idx = 0
          THEN /\ last' = Outcome("editCourse", 0, FALSE, 0)
               /\ UNCHANGED courseList
          ELSE LET list == [courseList EXCEPT ![idx] = EditedCourse(courseList, idx, data)]
               IN /\ courseList' = list
                  /\ last' = Outcome("editCourse", id, TRUE, list[idx].id)
    /\ calls' = Interfered
    /\ UNCHANGED <<users, progress, loadPerformed>>
    /\ RemoteFrame

incrementVisitsRemote(courseId) ==
    /\ variant = "remote"
    /\ LET idx == findCourseIndex(courseList, courseId)
       IN IF idx = 0
          THEN /\ last' = Outcome("incrementVisits", 0, FALSE, 0)
               /\ UNCHANGED courseList
          ELSE LET visits == courseList[idx].visits + 1
               IN /\ visits <= MaxVisits
                  /\ courseList' = [courseList EXCEPT ![idx].visits = visits]
                  /\ last' = Outcome("incrementVisits", courseId, TRUE, visits)
    /\ calls' = Interfered
    /\ UNCHANGED <<users, progress, loadPerformed>>
    /\ RemoteFrame

enrollUserRemote(userId, courseId, now) ==
    /\ variant = "remote"
    /\ LET idx == findCourseIndex(courseList, courseId)
       IN IF idx = 0 \/ IsStudent(courseList[idx].students, userId)
          THEN /\ last' = Outcome("enrollUser", 0, FALSE, 0)
               /\ UNCHANGED courseList
          ELSE /\ courseList' = [courseList EXCEPT
                                    ![idx].students = Append(@, <<userId, now>>)]
               /\ last' = Outcome("enrollUser", courseId, TRUE, 0)
    /\ calls' = Interfered
    /\ UNCHANGED <<users, progress, loadPerformed>>
    /\ RemoteFrame

resetAllCoursesRemote ==
    /\ variant = "remote"
    /\ courseList' = <<>>
    /\ last' = Outcome("resetAllCourses", 0, TRUE, 0)
    /\ calls' = Interfered
    /\ UNCHANGED <<users, progress, loadPerformed>>
    /\ RemoteFrame

---------------------------------------------------------------------------
(* The page load of the remote-backed variant *)

InitRemote ==
    /\ variant = "remote"
    /\ courseList = <<>>
    /\ storage = StorageAbsent
    /\ users = InitialUsers
    /\ progress = InitialProgress
    /\ calls = <<>>
    /\ last = Outcome("init", 0, TRUE, 0)
    /\ lastPersisted = <<>>
    /\ idHistory = {}
    /\ writeFailures = 0
    /\ loadPerformed = FALSE
    /\ InitWidget

\* What callers hand to editCourse of the remote-backed variant
CachedPatches == {[visits |-> 0]}

NextRemote ==
    \/ \E course \in CourseArgs : createCourseRemote(course)
    \/ \E p \in DOMAIN calls, answer \in FetchAnswers : createCourseFetched(p, answer)
    \/ \E p \in DOMAIN calls, ok \in BOOLEAN : createCourseResponded(p, ok)
    \/ listCoursesRemote
    \/ \E p \in DOMAIN calls, answer \in FetchAnswers : listCoursesFetched(p, answer)
    \/ \E id \in IdArgs : deleteCourseRemote(id)
    \/ \E p \in DOMAIN calls, ok \in BOOLEAN : deleteCourseResponded(p, ok)
    \/ \E id \in IdArgs : courseDeletionRemote(id)
    \/ \E p \in DOMAIN calls, ok \in BOOLEAN : courseDeletionResponded(p, ok)
    \/ \E id \in IdArgs, data \in CachedPatches : editCourseRemote(id, data)
    \/ \E id \in IdArgs : incrementVisitsRemote(id)
    \/ \E u \in UserIds, id \in IdArgs, now \in Times : enrollUserRemote(u, id, now)
    \/ resetAllCoursesRemote

SpecRemote == InitRemote /\ [][NextRemote]_vars

---------------------------------------------------------------------------
(* createCourse calls alone, in flight together *)

NextCreates ==
    \/ \E course \in CourseArgs : createCourseRemote(course)
    \/ \E p \in DOMAIN calls, answer \in FetchAnswers : createCourseFetched(p, answer)
    \/ \E p \in DOMAIN calls, ok \in BOOLEAN : createCourseResponded(p, ok)

SpecCreates == InitRemote /\ [][NextCreates]_vars

---------------------------------------------------------------------------
(* Either variant *)

Init == InitLocal \/ InitRemote

Next == NextLocal \/ NextRemote

Spec == Init /\ [][Next]_vars

---------------------------------------------------------------------------
(* The read operations, on any catalog: getCourse, searchCoursesByCategory  *)
(* and getAnalytics are the same code in the two variants                   *)

\* Courses as a catalog may hold them: created ones, and a persisted one
\* without students, categories and visits
ReadCourses == {
    [title |-> "A", students |-> <<>>, categories |-> Arr(<<"x">>), visits |-> 1],
    [title |-> "B", students |-> << <<"u1", "t">> >>, categories |-> Arr(<<"y">>),
     visits |-> 0],
    [title |-> "C", students |-> << <<"u1", "t">>, <<"u2", "t">> >>,
     categories |-> Arr(<<"x", "y">>), visits |-> 1],
    [title |-> "D"] }

\* The catalogs read: up to MaxReadCourses courses, with the ids 1, 2, ...
ReadCatalogs ==
    UNION {{[i \in 1 .. n |-> Spread(c[i], [id |-> i])] : c \in [1 .. n -> ReadCourses]} :
           n \in 0 .. MaxReadCourses}

ReadIds == 1 .. (MaxReadCourses + 1)
Categories == {"x", "y", "z", ""}

\* c.students?.length || 0
StudentCount(c) == IF Has(c, "students") THEN Len(c.students) ELSE 0

\* c.visits || 0
VisitCount(c) == IF Has(c, "visits") THEN c.visits ELSE 0

\* A sort whose comparator is the wrong way round: ascending
RECURSIVE SortedAscending(_)
SortedAscending(keys) ==
    IF keys = <<>> THEN <<>>
    ELSE LET n == Len(keys)
             front == SortedAscending(SubSeq(keys, 1, n - 1))
             ahead == Cardinality({k \in DOMAIN front : keys[front[k]] <= keys[n]})
         IN SubSeq(front, 1, ahead) \o <<n>> \o SubSeq(front, ahead + 1, Len(front))

\* array.sort((a, b) => key(b) - key(a)) on the positions of the array: the
\* positions in the order the sort leaves them. The sort is stable: an
\* element goes behind those with a key at least as great.
RECURSIVE SortedDescending(_)
SortedDescending(keys) ==
    IF keys = <<>> THEN <<>>
    ELSE LET n == Len(keys)
             front == SortedDescending(SubSeq(keys, 1, n - 1))
             ahead == Cardinality({k \in DOMAIN front : keys[front[k]] >= keys[n]})
         IN SubSeq(front, 1, ahead) \o <<n>> \o SubSeq(front, ahead + 1, Len(front))

\* [...list].sort(by key, descending).slice(0, 3)
TopThree(list, keys) ==
    LET order == SortedDescending(keys)
    IN [k \in 1 .. (IF Len(list) < 3 THEN Len(list) ELSE 3) |-> list[order[k]]]

\* courseList.reduce((acc, c) => acc + (c.students?.length || 0), 0)
RECURSIVE TotalEnrollments(_)
TotalEnrollments(list) ==
    IF list = <<>> THEN 0
    ELSE TotalEnrollments(SubSeq(list, 1, Len(list) - 1)) + StudentCount(list[Len(list)])

\* What getAnalytics() returns
Analytics(list) ==
    [totalCourses |-> Len(list),
     totalEnrollments |-> TotalEnrollments(list),
     topCourses |-> TopThree(list, [i \in DOMAIN list |-> StudentCount(list[i])]),
     topVisited |-> TopThree(list, [i \in DOMAIN list |-> VisitCount(list[i])])]

\* What the read operations never touch
ReadFrame ==
    UNCHANGED <<variant, storage, users, progress, calls, lastPersisted, idHistory,
                writeFailures, loadPerformed, widget>>

\* courseList.find(c => c.id === id) || null
getCourse(id) ==
    /\ LET idx == findCourseIndex(courseList, id)
       IN last' = [Outcome("getCourse", id, idx # 0, 0) EXCEPT
                      !.val = IF idx # 0 THEN courseList[idx] ELSE Null]
    /\ UNCHANGED courseList
    /\ ReadFrame

\* courseList.filter(c => c.categories && c.categories.includes(category)),
\* or [] for no category
searchCoursesByCategory(category) ==
    /\ last' = [Outcome("searchCoursesByCategory", 0, TRUE, 0) EXCEPT
                   !.val = IF category = "" THEN <<>>
                           ELSE SelectSeq(courseList,
                                    LAMBDA c : /\ Has(c, "categories")
                                               /\ Truthy(c.categories)
                                               /\ category \in Range(c.categories.v))]
    /\ UNCHANGED courseList
    /\ ReadFrame

\* A getAnalytics that sorts the catalog itself and not a copy of it
getAnalyticsInPlace ==
    /\ last' = [Outcome("getAnalytics", 0, TRUE, 0) EXCEPT !.val = Analytics(courseList)]
    /\ courseList' = LET order == SortedDescending(
                                      [i \in DOMAIN courseList |-> VisitCount(courseList[i])])
                     IN [k \in DOMAIN courseList |-> courseList[order[k]]]
    /\ ReadFrame

getAnalytics ==
    /\ last' = [Outcome("getAnalytics", 0, TRUE, 0) EXCEPT !.val = Analytics(courseList)]
    /\ UNCHANGED courseList
    /\ ReadFrame

InitRead ==
    /\ variant \in {"local", "remote"}
    /\ courseList \in ReadCatalogs
    /\ storage = IF variant = "local"
                 THEN [kind |-> "json", text |-> Stringify(courseList)]
                 ELSE StorageAbsent
    /\ users = InitialUsers
    /\ progress = InitialProgress
    /\ calls = <<>>
    /\ last = Outcome("init", 0, TRUE, 0)
    /\ lastPersisted = courseList
    /\ idHistory = Ids(courseList)
    /\ writeFailures = 0
    /\ loadPerformed = FALSE
    /\ InitWidget

NextRead ==
    \/ \E id \in ReadIds : getCourse(id)
    \/ \E category \in Categories : searchCoursesByCategory(category)
    \/ getAnalytics

SpecRead == InitRead /\ [][NextRead]_vars

---------------------------------------------------------------------------
(* The notification widget: the two click handlers *)

\* What the widget's handlers never touch
WidgetFrame ==
    UNCHANGED <<variant, courseList, storage, users, progress, calls,
                lastPersisted, idHistory, writeFailures, loadPerformed>>

\* classList.toggle(name)
toggle(classList, name) ==
    IF name \in classList THEN classList \ {name} ELSE classList \cup {name}

\* What can be clicked inside the list: the list itself, an item, or the dot
\* of an item that still has one
ClickTargets ==
    {[tag |-> "ul", item |-> 0]}
        \cup {[tag |-> "li", item |-> i] : i \in DOMAIN ul}
        \cup {[tag |-> "span", item |-> i] : i \in {j \in DOMAIN ul : ul[j].dot}}

\* e.target.closest('li'): the position of the item the target is or is in,
\* 0 for null
closest(target) == IF target.tag = "ul" THEN 0 ELSE target.item

\* icon.addEventListener('click', () => popup.classList.toggle('show'))
iconClick ==
    /\ variant = "widget"
    /\ popup' = toggle(popup, "show")
    /\ last' = Outcome("iconClick", 0, TRUE, 0)
    /\ UNCHANGED <<messages, countEl, ul>>
    /\ WidgetFrame

\* ul.addEventListener('click', e => ...): last.id is the position of the
\* item that took the click, last.ok whether there was one
ulClick(target) ==
    /\ variant = "widget"
    /\ LET li == closest(target)
       IN  IF li = 0
           THEN /\ last' = Outcome("ulClick", 0, FALSE, 0)
                /\ UNCHANGED <<messages, countEl, ul>>
           ELSE LET idx == ul[li].index
                IN  /\ last' = Outcome("ulClick", li, TRUE, idx)
                    /\ IF messages[idx + 1].unread
                       THEN /\ messages' = [messages EXCEPT ![idx + 1].unread = FALSE]
                            /\ countEl' = updateCount(messages', countEl)
                            /\ ul' = [ul EXCEPT ![li].dot = FALSE,
                                                ![li].classList = toggle(@, "expanded")]
                       ELSE /\ ul' = [ul EXCEPT ![li].classList = toggle(@, "expanded")]
                            /\ UNCHANGED <<messages, countEl>>
    /\ UNCHANGED popup
    /\ WidgetFrame

\* The page once the widget's script has run; the course system is idle
InitPage ==
    /\ variant = "widget"
    /\ courseList = <<>>
    /\ storage = StorageAbsent
    /\ users = InitialUsers
    /\ progress = InitialProgress
    /\ calls = <<>>
    /\ last = Outcome("init", 0, TRUE, 0)
    /\ lastPersisted = <<>>
    /\ idHistory = {}
    /\ writeFailures = 0
    /\ loadPerformed = FALSE
    /\ InitWidget

NextWidget ==
    \/ iconClick
    \/ \E target \in ClickTargets : ulClick(target)

SpecWidget == InitPage /\ [][NextWidget]_vars

---------------------------------------------------------------------------
(* The claims *)

\* The last operation was a createCourse that returned the course it stored
Created(o) == o.op = "createCourse" /\ o.ok

\* C1: in the local-store variant ids are never reused: the id a successful
\* createCourse returns is greater than every id a course of the catalog has
\* had earlier in the session, the deleted courses included.
C1_IdsNeverReused ==
    [][Created(last') => \A id \in idHistory : last'.val > id]_vars

\* C2: no two courses of the catalog have the same id, and no id of the
\* catalog comes from a caller: editCourse leaves the id of every course as
\* it was, and createCourse stores the id it generated.
UniqueIds ==
    \A i, j \in DOMAIN courseList : courseList[i].id = courseList[j].id => i = j

C2_IdsUniqueAndAssigned ==
    /\ [](UniqueIds)
    /\ [][/\ last'.op = "editCourse" =>
                /\ Len(courseList') = Len(courseList)
                /\ \A i \in DOMAIN courseList : courseList'[i].id = courseList[i].id
          /\ Created(last') =>
                courseList'[Len(courseList')].id = generateUniqueCourseId(courseList)
         ]_vars

\* C3: createCourse calls that follow one another, with no other operation
\* in between, return ids that increase strictly: the id returned is greater
\* than the id the call before returned and than every id already in the
\* catalog, to which the new course is appended.
C3_CreateIdsIncrease ==
    (Created(last) /\ last.alone) =>
        /\ last.prevCreate > 0 => last.val > last.prevCreate
        /\ Len(courseList) > 0
        /\ courseList[Len(courseList)].id = last.val
        /\ \A i \in 1 .. (Len(courseList) - 1) : courseList[i].id < last.val

C3_Witness ==
    /\ variant = "remote"
    /\ Created(last) /\ last.alone
    /\ last.prevCreate > 0
    /\ Len(courseList) = 2

\* The last operation was a remote createCourse whose POST the backend
\* refused, and no other operation ran between its call and its return
RefusedCreate(o) == o.op = "createCourse" /\ o.refused

\* C4 as stated: when the backend refuses the write of a remote createCourse,
\* the call returns null and the catalog is exactly what it was before the
\* call.
C4_RefusedCreateLeavesCatalog ==
    /\ [](RefusedCreate(last) => ~last.ok)
    /\ []((RefusedCreate(last) /\ last.alone /\ last.wasEmpty) => courseList = <<>>)
    /\ [][RefusedCreate(last') => courseList' = courseList]_vars

\* C4 amended: when the backend refuses the write of a remote createCourse,
\* the call returns null and the step that receives the refusal leaves the
\* catalog as it was, so the new course is not appended. Over the whole call
\* the catalog is what it was before the call, but for one case: called on an
\* empty catalog, createCourse first loads the catalog from the backend, and
\* what a successful load brought stays.
C4_RefusedCreateAppendsNothing ==
    /\ [](RefusedCreate(last) => ~last.ok)
    /\ []((RefusedCreate(last) /\ last.alone /\ last.wasEmpty) =>
            IF last.loaded THEN courseList \in ServerCatalogs ELSE courseList = <<>>)
    /\ [][RefusedCreate(last') => courseList' = courseList]_vars

C4_Witness ==
    /\ RefusedCreate(last) /\ last.alone /\ last.wasEmpty /\ last.loaded
    /\ courseList # <<>>

\* C5: a remote deleteCourse(id) that returns true has removed from the
\* catalog the course with that id and no other, whatever ran while its
\* request was in flight: no course with another id was removed by the call,
\* and if the call removed nothing the catalog holds no course with that id.
C5_DeleteRemovesItsCourse ==
    (last.op = "deleteCourse" /\ last.ok) =>
        /\ \A k \in DOMAIN last.removed : last.removed[k] = last.id
        /\ last.removed = <<>> => last.id \notin Ids(courseList)

\* C6: started with nothing under the storage key, the local catalog is the
\* seed of two courses; started with a persisted catalog, it is that catalog.
C6_SeedWhenNothingPersisted ==
    last.op = "init" =>
        /\ storage = StorageAbsent => courseList = SeedCourses
        /\ storage.kind = "json" => courseList = Parse(storage.text)

\* The listCourses calls that wait for the backend's answer to their read
ListLoads == {p \in DOMAIN calls : calls[p].op = "listCourses"}

\* C7: listCourses loads the catalog from the backend at most once: once a
\* load is done no listCourses call asks the backend again, and this when
\* the catalog is empty too.
C7_ListCoursesLoadsOnce ==
    [][loadPerformed => Cardinality(ListLoads') <= Cardinality(ListLoads)]_vars

\* The enrolled-courses list without the entries for the course courseId
WithoutCourse(enrolled, courseId) ==
    SelectSeq(enrolled, LAMBDA course : ToStr(course) # courseId)

\* C8: courseDeletion(courseId) for a course that exists (and, in the
\* remote-backed variant, whose remote delete is not refused) returns true;
\* afterwards no course with that id is in the catalog, and the list of
\* enrolled courses of every student is what it was without the entries for
\* courseId.
C8_CourseDeletionRemoves ==
    [][(last'.op = "courseDeletion" /\ last'.existed /\ ~last'.refused) =>
          /\ last'.ok
          /\ last'.id \notin Ids(courseList')
          /\ \A u \in DOMAIN users :
                users[u].role = "student" =>
                    users'[u].enrolledCourses =
                        WithoutCourse(users[u].enrolledCourses, last'.id)
      ]_vars

\* C9: the cascade of courseDeletion is gated and ordered. A courseDeletion
\* whose deleteCourse fails returns false, calls neither cleanupCourseData
\* nor updateUser and leaves progress records and users as they were, as
\* does the part of a remote courseDeletion before the backend answers. A
\* courseDeletion whose deleteCourse succeeds calls deleteCourse, then
\* cleanupCourseData, then updateUser only.
C9_CascadeGatedAndOrdered ==
    [][/\ (last'.op = "courseDeletion" /\ ~last'.ok) =>
             /\ last'.calls = <<>>
             /\ users' = users /\ progress' = progress
       /\ last'.op = "await" => (users' = users /\ progress' = progress)
       /\ (last'.op = "courseDeletion" /\ last'.ok) =>
             /\ Len(last'.calls) >= 2
             /\ last'.calls[1] = "deleteCourse"
             /\ last'.calls[2] = "cleanupCourseData"
             /\ \A k \in 3 .. Len(last'.calls) : last'.calls[k] = "updateUser"
      ]_vars

C9_Witness ==
    /\ variant = "remote"
    /\ last.op = "courseDeletion" /\ last.ok
    /\ Len(last.calls) = 4
    /\ progress # InitialProgress

\* C10: in the local-store variant, after an operation whose write to the
\* storage succeeded, a fresh page load reads from the storage a catalog
\* equal to the one in memory; after a write that failed, and until the next
\* one that succeeds, it reads the catalog that was in memory at the last
\* write that succeeded.
C10_RoundTrip ==
    /\ last.saved => InitialCatalog(storage) = courseList
    /\ InitialCatalog(storage) = lastPersisted

C10_Witness ==
    /\ ~last.saved /\ writeFailures > 0
    /\ last.ok /\ last.op = "editCourse"
    /\ lastPersisted # courseList
    /\ storage.kind = "json" /\ storage.text # <<>>

\* No user is twice in the student list of a course
NoDoubleEnrollment ==
    \A i \in DOMAIN courseList :
        \A j, k \in DOMAIN courseList[i].students :
            courseList[i].students[j][1] = courseList[i].students[k][1] => j = k

\* C11: enrollUser(u, c) on a course c that exists and has no entry for u
\* returns true and appends one entry for u to the student list of c; the
\* same call repeated at once returns false and changes nothing; and in
\* every reachable state no user is twice in the student list of a course.
C11_EnrollOnce ==
    /\ [](NoDoubleEnrollment)
    /\ [][\A u \in UserIds, c \in IdArgs, now \in Times :
            enrollUser(u, c, now) =>
                LET idx == findCourseIndex(courseList, c)
                IN /\ (idx # 0 /\ ~IsStudent(courseList[idx].students, u)) =>
                        /\ last'.ok
                        /\ courseList' = [courseList EXCEPT
                              ![idx].students = Append(@, <<u, now>>)]
                   /\ (last.op = "enrollUser" /\ last.ok /\ last.id = c) =>
                        (~last'.ok /\ courseList' = courseList)
         ]_vars

\* The visits of the course getCourse(id) finds in the catalog `list`
VisitsOf(list, id) == list[findCourseIndex(list, id)].visits

\* C12: the visits of a course never decrease: over every step of an
\* operation other than resetAllCourses, a course that is in the catalog
\* before and after the step has at least the visits it had. (Stated for
\* the catalogs where the id names one course.)
C12_VisitsNeverDecrease ==
    [][(last'.op # "resetAllCourses" /\ UniqueIds /\ UniqueIds') =>
          \A id \in Ids(courseList) \cap Ids(courseList') :
              VisitsOf(courseList', id) >= VisitsOf(courseList, id)
      ]_vars

\* C13: no operation throws: whatever the arguments, editCourse of an
\* existing course with an absent patch included, a call ends with a return
\* value.
C13_NoOperationThrows == ~last.threw

\* The elements of s, each kept where it is seen first
RECURSIVE FirstSeen(_)
FirstSeen(s) ==
    IF s = <<>> THEN <<>>
    ELSE <<Head(s)>> \o FirstSeen(SelectSeq(Tail(s), LAMBDA x : x # Head(s)))

\* The categories `old`, then those of `given` that are not among them
Merged(old, given) ==
    old \o FirstSeen(SelectSeq(given, LAMBDA x : x \notin Range(old)))

\* C14: editCourse(id, patch) of an existing course with patch.categories
\* supplied: an array gives the categories the course had, in their order,
\* followed by the supplied ones it did not have, each once and in the order
\* they are first seen; a value that is not an array leaves the categories
\* as they were; and the fields the patch does not name are unchanged.
C14_CategoriesMerged ==
    [][\A id \in IdArgs, data \in Patches \ {Null} :
          (editCourse(id, data) /\ id \in Ids(courseList) /\ Has(data, "categories")) =>
              LET idx == findCourseIndex(courseList, id)
                  old == courseList[idx]
                  new == courseList'[idx]
              IN /\ IsArray(data.categories) =>
                       new.categories = Arr(Merged(OrEmpty(old.categories), data.categories.v))
                 /\ ~IsArray(data.categories) => new.categories = old.categories
                 /\ \A k \in DOMAIN old \ DOMAIN data : new[k] = old[k]
      ]_vars

\* C15: resetAllCourses empties the catalog and the persisted copy and does
\* not seed: right after it the catalog is empty and, in the local-store
\* variant, a fresh page load reads an empty catalog; and a listCourses()
\* called right after it, with nothing else run before it returns, returns
\* the empty catalog.
C15_ResetLeavesEmpty ==
    /\ last.op = "resetAllCourses" =>
          /\ courseList = <<>>
          /\ variant = "local" => InitialCatalog(storage) = <<>>
    /\ (last.op = "listCourses" /\ last.afterReset /\ last.alone) =>
          (courseList = <<>> /\ last.val = 0)

\* A createCourse argument that is absent or has no title
NoTitle(course) == IsNull(course) \/ ~Has(course, "title")

\* C16: createCourse with an absent argument or with a partial that has no
\* title returns null, leaves the catalog and the persisted copy unchanged
\* and, in the remote-backed variant, sends nothing to the backend.
C16_CreateWithoutTitle ==
    [][last'.op \in {"createCourse", "await"} =>
          \A course \in CourseArgs :
              (NoTitle(course) /\ (createCourse(course) \/ createCourseRemote(course))) =>
                  /\ last'.op = "createCourse" /\ ~last'.ok /\ ~last'.threw
                  /\ courseList' = courseList
                  /\ storage' = storage
                  /\ Len(calls') = Len(calls)
      ]_vars

C16_Witness ==
    /\ variant = "remote"
    /\ last.op = "createCourse" /\ ~last.ok /\ ~last.refused
    /\ courseList # <<>>
    /\ calls # <<>>

\* C17: deleteCourse(id) with an id no course of the catalog has returns
\* false, leaves the catalog and the persisted copy unchanged and, in the
\* remote-backed variant, sends no delete to the backend.
C17_DeleteUnknownId ==
    [][last'.op \in {"deleteCourse", "await"} =>
          \A id \in IdArgs :
              (id \notin Ids(courseList) /\ (deleteCourse(id) \/ deleteCourseRemote(id))) =>
                  /\ last'.op = "deleteCourse" /\ ~last'.ok /\ ~last'.threw
                  /\ courseList' = courseList
                  /\ storage' = storage
                  /\ Len(calls') = Len(calls)
      ]_vars

C17_Witness ==
    /\ variant = "remote"
    /\ last.op = "deleteCourse" /\ ~last.ok /\ ~last.refused /\ ~last.existed
    /\ courseList # <<>>
    /\ calls # <<>>

\* The place of position i when the positions are ordered by key, greatest
\* first, and positions with equal keys stay in the order of the catalog
Rank(keys, i) ==
    Cardinality({j \in DOMAIN keys : keys[j] > keys[i] \/ (keys[j] = keys[i] /\ j < i)}) + 1

\* The first three courses of the catalog in that order
FirstThreeBy(list, keys) ==
    [k \in 1 .. (IF Len(list) < 3 THEN Len(list) ELSE 3) |->
        list[CHOOSE i \in DOMAIN list : Rank(keys, i) = k]]

\* One element for each entry of each student list
Enrollments(list) ==
    UNION {{<<i, j>> : j \in 1 .. StudentCount(list[i])} : i \in DOMAIN list}

\* C18: getAnalytics() returns the number of courses, the sum of the
\* lengths of the student lists, the first three courses by number of
\* students, greatest first, and the first three by visits, greatest first,
\* ties in the order of the catalog; on an empty catalog 0, 0, [] and [].
C18_Analytics ==
    last.op = "getAnalytics" =>
        /\ last.val.totalCourses = Len(courseList)
        /\ last.val.totalEnrollments = Cardinality(Enrollments(courseList))
        /\ last.val.topCourses =
              FirstThreeBy(courseList,
                           [i \in DOMAIN courseList |-> StudentCount(courseList[i])])
        /\ last.val.topVisited =
              FirstThreeBy(courseList,
                           [i \in DOMAIN courseList |-> VisitCount(courseList[i])])
        /\ courseList = <<>> =>
              last.val = [totalCourses |-> 0, totalEnrollments |-> 0,
                          topCourses |-> <<>>, topVisited |-> <<>>]

C18_Witness ==
    /\ last.op = "getAnalytics"
    /\ Len(courseList) = 4
    /\ last.val.topCourses # SubSeq(courseList, 1, 3)
    /\ last.val.topVisited # last.val.topCourses
    /\ StudentCount(last.val.topCourses[2]) = StudentCount(last.val.topCourses[3])
    /\ last.val.totalEnrollments > 2

C19_ConcurrentCreatesDistinctIds ==
    [][(Created(last) /\ Created(last')) => last'.val # last.val]_vars

\* C21: a course a successful remote createCourse returned stays in the
\* catalog until it is deleted or the catalog is reset: the answer to a load
\* that listCourses or createCourse issued earlier, arriving right after
\* the createCourse returned, leaves the course in the catalog.
C21_LateLoadKeepsCreated ==
    [][(variant = "remote" /\ Created(last) /\ last'.op \in {"listCourses", "await"}) =>
          courseList[Len(courseList)] \in Range(courseList')
      ]_vars

\* The number of messages still unread
Unread(msgs) == Cardinality({i \in DOMAIN msgs : msgs[i].unread})

\* The badge is hidden exactly when nothing is unread, and shows the number
\* of unread messages otherwise
BadgeShowsUnread ==
    /\ (countEl.display = "none") <=> (Unread(messages) = 0)
    /\ Unread(messages) > 0 =>
          countEl.display = "flex" /\ countEl.innerText = String(Unread(messages))

\* C22: after any sequence of clicks on the bell icon and on notification
\* items, the badge shows exactly the number of unread messages and is hidden
\* exactly when that number is 0; a clicked message is read, a read message
\* never becomes unread again, and the unread count never increases.
C22_BadgeTracksUnread ==
    /\ []BadgeShowsUnread
    /\ [][/\ \A i \in DOMAIN messages : ~messages[i].unread => ~messages'[i].unread
          /\ (last'.op = "ulClick" /\ last'.ok) => ~messages'[last'.val + 1].unread
          /\ Unread(messages') <= Unread(messages)
        ]_vars

\* Every message has been read, the badge is hidden, and the last click
\* collapsed an item that was already read
C22_Witness ==
    /\ variant = "widget"
    /\ Unread(messages) = 0
    /\ countEl.display = "none"
    /\ last.op = "ulClick" /\ last.ok
    /\ "expanded" \notin ul[last.id].classList
    /\ "show" \in popup

====
